---- MODULE Spec2Model ----
(***************************************************************************)
(* Generate-Execute-Verify loop of TDS-PROJECT-2.                          *)
(*                                                                         *)
(* Two entry points are modelled: main (main.py) and solve_with_retry      *)
(* (tests/ntest.py), each with its own extract_program / executeCode.      *)
(* Texts (a model response, a child's stdout) are sequences of line        *)
(* tokens; a decoded JSON value is a tagged string distinct from the text  *)
(* it was decoded from.                                                    *)
(*                                                                         *)
(* Spec and FairSpec follow one call through its steps.  ExtractSpec       *)
(* applies extract_program, and ParseSpec the output parsing of            *)
(* executeCode, to every input up to a length bound.  ConcSpec runs two    *)
(* calls side by side against one dependency environment.                  *)
(***************************************************************************)
EXTENDS Integers, Sequences, FiniteSets, TLC

\* ---------------------------------------------------------------- bounds
\* largest value of the max_retries parameter that is explored
MaxRetries == 2
\* longest model response, in lines, given to extract_program on its own
MaxResp == 3
\* longest stdout, in lines, given to the parsing part of executeCode on its own
MaxOut == 4
\* generation calls are capped above anything the loop guard allows
MaxGen == MaxRetries + 3

\* ------------------------------------------------------- python values
NoneVal == "<None>"
Absent == "<absent>"
NoneSeq == <<"<None>">>
AbsentSeq == <<"<absent>">>

\* python truthiness of a dict.get("error") value
Truthy(e) == e \notin {NoneVal, Absent, ""}

\* ------------------------------------------------------- text helpers
RECURSIVE LStrip(_)
LStrip(s) == IF s # <<>> /\ Head(s) = " " THEN LStrip(Tail(s)) ELSE s

RECURSIVE RStrip(_)
RStrip(s) ==
  IF s # <<>> /\ s[Len(s)] = " " THEN RStrip(SubSeq(s, 1, Len(s) - 1)) ELSE s

\* str.strip() on a text whose blank lines are the token " "
Strip(s) == LStrip(RStrip(s))

\* str.find: index of the first occurrence of token t, 0 when absent
Find(s, t) ==
  IF \E i \in DOMAIN s : s[i] = t
  THEN CHOOSE i \in DOMAIN s : s[i] = t /\ \A j \in 1..(i - 1) : s[j] # t
  ELSE 0

\* index of the first occurrence of t after position i, 0 when absent
FindAfter(s, t, i) ==
  IF \E j \in DOMAIN s : j > i /\ s[j] = t
  THEN CHOOSE j \in DOMAIN s :
         j > i /\ s[j] = t /\ \A k \in (i + 1)..(j - 1) : s[k] # t
  ELSE 0

\* python slice s[a:b] with 0-based a, b given as token positions:
\* the tokens strictly between positions a and b, empty when b <= a
Between(s, a, b) == IF b > a + 1 THEN SubSeq(s, a + 1, b - 1) ELSE <<>>

\* ------------------------------------------------------- JSON payloads
\* lines of a child's stdout
START == "START"
END == "END"
ERRMARK == "__ERROR__"
JsonNum == "4"
JsonObj == "{\"answer\": 4}"
OutTok == {START, END, ERRMARK, " ", "junk", JsonNum, JsonObj}

\* json.loads succeeds on a text that is exactly one JSON document
JsonValid(text) == Len(text) = 1 /\ text[1] \in {JsonNum, JsonObj}

\* json.loads: the decoded value, tagged with its python type
JsonLoads(text) ==
  CASE text[1] = JsonNum -> "int:4"
    [] text[1] = JsonObj -> "dict:answer=int:4"
    [] OTHER -> NoneVal

\* answer_data["answer"]: defined on a dict only
IsDict(v) == v = "dict:answer=int:4"
GetAnswer(v) == IF IsDict(v) THEN "int:4" ELSE NoneVal

\* ------------------------------------------------------- model responses
\* lines of a model response: code fences, prose, prose holding braces,
\* and one-line JSON objects (ObjTable gives what each decodes to)
ObjTable ==
  [ o_p1      |-> [program |-> "p1",    isList |-> TRUE,  dependencies |-> <<>>],
    o_p1_d1   |-> [program |-> "p1",    isList |-> TRUE,  dependencies |-> <<"d1">>],
    o_p2_d1d2 |-> [program |-> "p2",    isList |-> TRUE,  dependencies |-> <<"d1", "d2">>],
    o_p2      |-> [program |-> "p2",    isList |-> TRUE,  dependencies |-> <<>>],
    o_p2_str  |-> [program |-> "p2",    isList |-> FALSE, dependencies |-> <<>>],
    o_noprog  |-> [program |-> Absent,  isList |-> TRUE,  dependencies |-> <<"d1">>],
    o_null    |-> [program |-> NoneVal, isList |-> TRUE,  dependencies |-> <<>>] ]

ObjTok == DOMAIN ObjTable
\* a fence line opening with a language tag, and a bare fence line
FenceTok == {"FENCE_JSON", "FENCE"}
RespTok == FenceTok \cup {"prose", "{junk}"} \cup ObjTok
HasBrace(t) == t \in ObjTok \cup {"{junk}"}

\* the responses the generation collaborator is taken to give: every
\* one-line response, the empty one, and an object in fences, in prose,
\* and next to a second object
Responses ==
  {<<t>> : t \in RespTok}
    \cup { <<>>,
           <<"FENCE_JSON", "o_p1_d1", "FENCE">>,
           <<"prose", "o_p2", "prose">>,
           <<"prose", "FENCE_JSON", "o_p2_d1d2", "FENCE", "prose">>,
           <<"o_p1", "o_p2">>,
           <<"{junk}", "o_p1">> }

\* re.sub of the fence patterns: every fence line is removed
RemoveFences(s) == SelectSeq(s, LAMBDA t : t \notin FenceTok)

\* re.search of the brace pattern: greedy, from the first opening brace
\* to the last closing brace
BraceSpan(s) ==
  LET idx == {i \in DOMAIN s : HasBrace(s[i])}
  IN IF idx = {} THEN <<>>
     ELSE LET lo == CHOOSE i \in idx : \A j \in idx : i <= j
              hi == CHOOSE i \in idx : \A j \in idx : j <= i
          IN SubSeq(s, lo, hi)

\* json.loads(match.group()) succeeds when the span is one JSON object
SpanDecodes(span) == Len(span) = 1 /\ span[1] \in ObjTok

EmptyProgram == [raised |-> FALSE, program |-> "", dependencies |-> <<>>]

\* extract_program of main.py and of tests/ntest.py; raised marks the
\* AttributeError of program.strip() on a null program
extract_program(resp) ==
  LET span == BraceSpan(RemoveFences(resp))
  IN IF span = <<>> THEN EmptyProgram
     ELSE IF ~SpanDecodes(span) THEN EmptyProgram
     ELSE LET data == ObjTable[span[1]]
              program == IF data.program = Absent THEN "" ELSE data.program
              dependencies == IF data.isList THEN data.dependencies ELSE <<>>
          IN IF program = NoneVal
             THEN [raised |-> TRUE, program |-> "", dependencies |-> <<>>]
             ELSE [raised |-> FALSE, program |-> program,
                   dependencies |-> dependencies]

\* ------------------------------------------------------- child processes
\* what one child process does: how long it runs against the timeout,
\* its exit code and its captured streams
Durations == {"within", "late", "never"}
\* a captured stderr, with and without surrounding whitespace
Stderrs == {"", "trace", " trace "}
\* result.stderr.strip()
StripErr(e) == IF e = " trace " THEN "trace" ELSE e
CtlStdouts ==
  { <<>>,
    <<"junk">>,
    <<ERRMARK>>,
    <<START, JsonObj, END>>,
    <<START, JsonNum, END>>,
    <<START, "junk", END>>,
    <<"junk", START, " ", JsonObj, " ", END, "junk">> }
Children ==
  [dur : Durations, returncode : {0, 1}, stdout : CtlStdouts, stderr : Stderrs]
NoChild == [dur |-> "none", returncode |-> 0, stdout |-> <<>>, stderr |-> ""]

\* ------------------------------------------------------- executeCode
\* the dict executeCode returns; a key the dict lacks is Absent
Dict(e, a, o) == [error |-> e, answer |-> a, output |-> o]
NoResult == Dict(Absent, AbsentSeq, AbsentSeq)

\* main.py: re.search of the sentinel pattern (non-greedy) on the stripped
\* stdout, then match.group(1).strip()
MainMatch(stdout) ==
  LET i == Find(stdout, START)
      j == FindAfter(stdout, END, i)
  IN IF i = 0 \/ j = 0 THEN AbsentSeq ELSE Strip(Between(stdout, i, j))

\* main.py executeCode, lines 116-127, on a completed child
MainResult(c) ==
  LET stdout == Strip(c.stdout)
  IN IF c.returncode # 0
     THEN Dict(IF StripErr(c.stderr) = "" THEN "error: " ELSE "error: trace",
               AbsentSeq, AbsentSeq)
     ELSE IF MainMatch(stdout) # AbsentSeq
          THEN Dict(Absent, AbsentSeq, MainMatch(stdout))
          ELSE Dict(Absent, AbsentSeq, stdout)

\* tests/ntest.py executeCode, lines 168-211, on a completed child
NtestResult_ParsesFirst(c) ==
  LET output == c.stdout
      start == Find(output, START)
      end == Find(output, END)
      answer_json == Strip(Between(output, start, end))
  IN IF start # 0 /\ end # 0 /\ JsonValid(answer_json)
        /\ IsDict(JsonLoads(answer_json))
     THEN Dict(NoneVal, <<GetAnswer(JsonLoads(answer_json))>>, AbsentSeq)
     ELSE IF c.returncode # 0 THEN Dict(StripErr(c.stderr), NoneSeq, AbsentSeq)
     ELSE Dict("Failed to parse answer", NoneSeq, AbsentSeq)
NtestResult(c) ==
  LET output == c.stdout
      start == Find(output, START)
      end == Find(output, END)
      answer_json == Strip(Between(output, start, end))
  IN IF c.returncode # 0 THEN Dict(StripErr(c.stderr), NoneSeq, AbsentSeq)
     ELSE IF Find(output, ERRMARK) # 0
       THEN Dict("Code did not produce an 'answer' variable", NoneSeq, AbsentSeq)
     ELSE IF start # 0 /\ end # 0
       THEN IF ~JsonValid(answer_json)
            THEN Dict("Failed to parse answer", NoneSeq, AbsentSeq)
            ELSE IF ~IsDict(JsonLoads(answer_json))
            THEN Dict("Execution error: TypeError", NoneSeq, AbsentSeq)
            ELSE Dict(NoneVal, <<GetAnswer(JsonLoads(answer_json))>>, AbsentSeq)
     ELSE Dict(NoneVal, Strip(output), AbsentSeq)

TimeoutResult == Dict("Code execution timed out after 120 seconds", NoneSeq, AbsentSeq)
SpawnErrorResult == Dict("Execution error: OSError", NoneSeq, AbsentSeq)
InstallFailedResult == Dict("Failed to install required dependencies", NoneSeq, AbsentSeq)

\* ------------------------------------------------------- state
VARIABLES
  entry,        \* which entry point runs: "main" or "solve" (solve_with_retry)
  max_retries,  \* solve_with_retry's parameter
  pc,           \* position of the call
  code,         \* program text of the current attempt
  deps,         \* its declared dependencies
  idx,          \* position in deps of the next package to install
  child,        \* the child process of the current attempt, NoChild if none
  files,        \* number of temporary program files that exist
  result,       \* dict returned by the last executeCode call
  retry_count,  \* solve_with_retry's loop counter
  returned,     \* value handed to the caller
  genCalls,     \* calls of generateCode and regenerateCode so far
  lastGen,      \* arguments of the latest generation call
  lastAttempt,  \* number, program and diagnostic of the latest executeCode call
  installLog,   \* installs started by the current executeCode call, in order
  running,      \* number of child processes of the call that are alive
  response,     \* raw text handed to extract_program
  extracted,    \* what extract_program made of it
  sessions,     \* position of each of two concurrent calls
  env           \* packages in the dependency environment the calls share

\* the state of the pure-function and two-session specifications, which
\* no step of a single call touches
aux == <<response, extracted, sessions, env>>

vars ==
  <<entry, max_retries, pc, code, deps, idx, child, files, result,
    retry_count, returned, genCalls, lastGen, lastAttempt, installLog,
    running, aux>>

NoGen == [fn |-> "none", failed_code |-> NoneVal, error |-> NoneVal]
NoAttempt == [n |-> 0, code |-> NoneVal, error |-> Absent]
Unreturned == [keys |-> {}, error |-> Absent, answer |-> AbsentSeq, text |-> AbsentSeq]

\* a dict with the keys "error" and "answer", as solve_with_retry returns
RetDict(e, a) ==
  [keys |-> {"error", "answer"}, error |-> e, answer |-> a, text |-> AbsentSeq]
\* a bare string, as main returns
RetText(t) == [keys |-> {}, error |-> Absent, answer |-> AbsentSeq, text |-> t]

\* extract_program has not been called
NoExtract == [raised |-> FALSE, program |-> Absent, dependencies |-> <<>>]

\* two calls that run at the same time against one host environment
Sessions == {"A", "B"}
SessionIdle == [pc |-> "idle", deps |-> <<>>, idx |-> 1]

Init ==
  /\ \/ entry = "solve" /\ max_retries \in 0..MaxRetries
     \/ entry = "main" /\ max_retries = 0
  /\ pc = "promptGenerator"
  /\ code = ""
  /\ deps = <<>>
  /\ idx = 1
  /\ child = NoChild
  /\ files = 0
  /\ result = NoResult
  /\ retry_count = 0
  /\ returned = Unreturned
  /\ genCalls = 0
  /\ lastGen = NoGen
  /\ lastAttempt = NoAttempt
  /\ installLog = <<>>
  /\ running = 0
  /\ response = <<>>
  /\ extracted = NoExtract
  /\ sessions = [s \in Sessions |-> SessionIdle]
  /\ env = {}

\* executeCode begins with the install loop, which an empty list skips
ExecStart_SkipsInstall(d) == "write"
ExecStart(d) == IF d = <<>> THEN "write" ELSE "install"

\* ------------------------------------------------------- controller
\* promptGenerator(request): the enriched prompt is an opaque string
PromptGenerator ==
  /\ pc = "promptGenerator"
  /\ pc' = "generateCode"
  /\ UNCHANGED <<aux, installLog, running, entry, max_retries, code, deps, idx, child, files, result,
                 retry_count, returned, genCalls, lastGen,
                 lastAttempt>>

\* what follows a generation call that produced g
AfterGeneration(g, failMessage) ==
  IF g.raised
  THEN /\ pc' = "Raised"
       /\ UNCHANGED <<code, deps, idx, returned>>
  ELSE /\ code' = g.program
       /\ deps' = g.dependencies
       /\ idx' = 1
       /\ IF entry = "solve" /\ g.program = ""
          THEN /\ pc' = "Returned"
               /\ returned' = RetDict(failMessage, NoneSeq)
          ELSE /\ pc' = ExecStart(g.dependencies)
               /\ UNCHANGED returned

\* code, deps = generateCode(prompt), and the "if not code" test after it
GenerateCode ==
  /\ pc = "generateCode"
  /\ genCalls < MaxGen
  /\ genCalls' = genCalls + 1
  /\ lastGen' = [fn |-> "generateCode", failed_code |-> NoneVal, error |-> NoneVal]
  /\ child' = NoChild
  /\ installLog' = <<>>
  /\ \E resp \in Responses :
       AfterGeneration(extract_program(resp), "Failed to generate code")
  /\ UNCHANGED <<aux, running, entry, max_retries, files, result, retry_count, lastAttempt>>

\* the while test of solve_with_retry
RetryGuard_OffByOne == Truthy(result.error) /\ retry_count <= max_retries
RetryGuard_IgnoresOutcome == retry_count < max_retries
RetryGuard == Truthy(result.error) /\ retry_count < max_retries

\* retry_count += 1
NextRetryCount_Forgotten == retry_count
NextRetryCount == retry_count + 1

\* the loop test on the result of the attempt, then either the start of an
\* iteration or "return result"
Evaluate ==
  /\ pc = "evaluate"
  /\ entry = "solve"
  /\ IF RetryGuard
     THEN /\ retry_count' = NextRetryCount
          /\ pc' = "regenerateCode"
          /\ UNCHANGED returned
     ELSE /\ pc' = "Returned"
          /\ returned' = RetDict(result.error, result.answer)
          /\ UNCHANGED retry_count
  /\ UNCHANGED <<aux, installLog, running, entry, max_retries, code, deps, idx, child, files, result,
                 genCalls, lastGen, lastAttempt>>

\* regenerateCode(prompt, code, result['error'])
RegenerateArgs_NoFeedback ==
  [fn |-> "generateCode", failed_code |-> NoneVal, error |-> NoneVal]
RegenerateArgs ==
  [fn |-> "regenerateCode", failed_code |-> code, error |-> result.error]

\* code, deps = regenerateCode(...), and the "if not code" test after it
RegenerateCode ==
  /\ pc = "regenerateCode"
  /\ genCalls < MaxGen
  /\ genCalls' = genCalls + 1
  /\ lastGen' = RegenerateArgs
  /\ child' = NoChild
  /\ installLog' = <<>>
  /\ \E resp \in Responses :
       AfterGeneration(extract_program(resp), "Failed to regenerate code")
  /\ UNCHANGED <<aux, running, entry, max_retries, files, result, retry_count, lastAttempt>>

\* main: return result["output"] if "output" in result else "Some error occurred."
MainReturn ==
  /\ pc = "evaluate"
  /\ entry = "main"
  /\ pc' = "Returned"
  /\ returned' = IF result.output # AbsentSeq
                 THEN RetText(result.output)
                 ELSE RetText(<<"Some error occurred.">>)
  /\ UNCHANGED <<aux, installLog, running, entry, max_retries, code, deps, idx, child, files, result,
                 retry_count, genCalls, lastGen, lastAttempt>>

\* ------------------------------------------------------- executeCode
\* executeCode returns r to its caller
ExecReturn(r) ==
  /\ result' = r
  /\ lastAttempt' = [n |-> genCalls, code |-> code, error |-> r.error]
  /\ pc' = "evaluate"

\* outcomes of installing one package: main.py runs "uv add" with
\* check=True and no timeout, ntest.py runs pip with timeout=60
InstallOutcomes == IF entry = "main" THEN {"ok", "fail"} ELSE {"ok", "fail", "timeout"}

\* for pkg in dependencies: the package the loop is at
NextPkg_Reversed == deps[Len(deps) + 1 - idx]
NextPkg == deps[idx]

\* one iteration of the install loop (main.py 98-105, ntest.py 92-114):
\* ntest.py gives up the attempt on the first failure, main.py abandons the
\* remaining installs and goes on to run the program
InstallStep ==
  /\ pc = "install"
  /\ idx <= Len(deps)
  /\ \E o \in InstallOutcomes :
       /\ installLog' = Append(installLog, [pkg |-> NextPkg, outcome |-> o])
       /\ IF o = "ok"
          THEN /\ idx' = idx + 1
               /\ pc' = IF idx = Len(deps) THEN "write" ELSE "install"
               /\ UNCHANGED <<result, lastAttempt>>
          ELSE IF entry = "main"
               THEN /\ pc' = "write"
                    /\ UNCHANGED <<idx, result, lastAttempt>>
               ELSE /\ ExecReturn(InstallFailedResult)
                    /\ UNCHANGED idx
  /\ UNCHANGED <<aux, running, entry, max_retries, code, deps, child, files, retry_count,
                 returned, genCalls, lastGen>>

\* NamedTemporaryFile(delete=False) creates the file, f.write fills it; a
\* write that raises is caught by neither implementation
WriteFile ==
  /\ pc = "write"
  /\ files' = files + 1
  /\ \E written \in BOOLEAN : pc' = IF written THEN "spawn" ELSE "Raised"
  /\ UNCHANGED <<aux, installLog, running, entry, max_retries, code, deps, idx, child, result,
                 retry_count, returned, genCalls, lastGen,
                 lastAttempt>>

\* os.unlink(temp_file) inside try/except: pass; removing the file the call
\* has just created is taken to succeed
Unlink == files - 1

\* subprocess.run starts the child; when the spawn itself raises, ntest.py
\* reports an execution error and main.py lets the exception escape
Spawn ==
  /\ pc = "spawn"
  /\ \E spawned \in BOOLEAN :
       IF spawned
       THEN /\ \E c \in Children : child' = c
            /\ running' = running + 1
            /\ pc' = "wait"
            /\ UNCHANGED <<files, result, lastAttempt>>
       ELSE IF entry = "main"
            THEN /\ pc' = "Raised"
                 /\ UNCHANGED <<child, files, result, lastAttempt, running>>
            ELSE /\ files' = Unlink
                 /\ ExecReturn(SpawnErrorResult)
                 /\ UNCHANGED <<child, running>>
  /\ UNCHANGED <<aux, installLog, entry, max_retries, code, deps, idx, retry_count, returned,
                 genCalls, lastGen>>

\* main.py waits for the child without a timeout and never removes the file
WaitMain ==
  /\ pc = "wait"
  /\ entry = "main"
  /\ child.dur # "never"
  /\ ExecReturn(MainResult(child))
  /\ running' = running - 1
  /\ UNCHANGED <<aux, installLog, entry, max_retries, code, deps, idx, child, files,
                 retry_count, returned, genCalls, lastGen>>

\* ntest.py waits at most timeout seconds, removes the file, then parses
WaitNtest ==
  /\ pc = "wait"
  /\ entry = "solve"
  /\ files' = Unlink
  /\ IF child.dur = "within"
     THEN ExecReturn(NtestResult(child))
     ELSE ExecReturn(TimeoutResult)
  /\ running' = running - 1
  /\ UNCHANGED <<aux, installLog, entry, max_retries, code, deps, idx, child, retry_count,
                 returned, genCalls, lastGen>>

Next ==
  \/ PromptGenerator
  \/ GenerateCode
  \/ InstallStep
  \/ WriteFile
  \/ Spawn
  \/ WaitMain
  \/ WaitNtest
  \/ Evaluate
  \/ RegenerateCode
  \/ MainReturn

Spec == Init /\ [][Next]_vars

\* the call is sequential: a step that can be taken is taken
FairSpec == Spec /\ WF_vars(Next)

\* ------------------------------------------------------- extract_program alone
\* every response of at most MaxResp lines
AllResponses == UNION {[1..n -> RespTok] : n \in 0..MaxResp}

\* a call of extract_program(response.text) on any such response
ExtractInit ==
  /\ entry \in {"main", "solve"}
  /\ max_retries = 0
  /\ pc = "extract_program"
  /\ response \in AllResponses
  /\ extracted = NoExtract
  /\ code = ""
  /\ deps = <<>>
  /\ idx = 1
  /\ child = NoChild
  /\ files = 0
  /\ result = NoResult
  /\ retry_count = 0
  /\ returned = Unreturned
  /\ genCalls = 1
  /\ lastGen = [fn |-> "generateCode", failed_code |-> NoneVal, error |-> NoneVal]
  /\ lastAttempt = NoAttempt
  /\ installLog = <<>>
  /\ running = 0
  /\ sessions = [s \in Sessions |-> SessionIdle]
  /\ env = {}

\* return extract_program(response.text), or the exception it lets escape
ExtractProgram ==
  /\ pc = "extract_program"
  /\ extracted' = extract_program(response)
  /\ pc' = IF extracted'.raised THEN "Raised" ELSE "extracted"
  /\ UNCHANGED <<entry, max_retries, code, deps, idx, child, files, result,
                 retry_count, returned, genCalls, lastGen, lastAttempt,
                 installLog, running, response, sessions, env>>

ExtractNext == ExtractProgram

ExtractSpec == ExtractInit /\ [][ExtractNext]_vars

\* ------------------------------------------------------- output parsing alone
\* every stdout of at most MaxOut lines
AllStdouts == UNION {[1..n -> OutTok] : n \in 0..MaxOut}

\* children that end, in time or late, with any exit code and streams
ParseChildren ==
  [dur : {"within", "late"}, returncode : {0, 1}, stdout : AllStdouts,
   stderr : Stderrs]

\* executeCode of a first attempt at the point where the child has been
\* spawned: what remains is the wait and the parsing of its output
ParseInit ==
  /\ entry \in {"main", "solve"}
  /\ max_retries = 0
  /\ pc = "wait"
  /\ child \in ParseChildren
  /\ running = 1
  /\ files = 1
  /\ code = "p1"
  /\ deps = <<>>
  /\ idx = 1
  /\ result = NoResult
  /\ retry_count = 0
  /\ returned = Unreturned
  /\ genCalls = 1
  /\ lastGen = [fn |-> "generateCode", failed_code |-> NoneVal, error |-> NoneVal]
  /\ lastAttempt = NoAttempt
  /\ installLog = <<>>
  /\ response = <<>>
  /\ extracted = NoExtract
  /\ sessions = [s \in Sessions |-> SessionIdle]
  /\ env = {}

ParseNext == WaitMain \/ WaitNtest

ParseSpec == ParseInit /\ [][ParseNext]_vars

\* ------------------------------------------------------- two calls at once
\* Two calls of the same entry point run side by side on one host. Each is
\* followed through one attempt: its generation call, the install loop of
\* executeCode and the run of the child. Nothing in either call waits for
\* the other: the code takes no lock and gives a call no environment of its
\* own, so the steps interleave freely.
DepLists == {ObjTable[o].dependencies : o \in ObjTok}

ConcInit ==
  /\ entry \in {"main", "solve"}
  /\ max_retries = 0
  /\ pc = "sessions"
  /\ sessions = [s \in Sessions |-> SessionIdle]
  /\ env = {}
  /\ code = ""
  /\ deps = <<>>
  /\ idx = 1
  /\ child = NoChild
  /\ files = 0
  /\ result = NoResult
  /\ retry_count = 0
  /\ returned = Unreturned
  /\ genCalls = 0
  /\ lastGen = NoGen
  /\ lastAttempt = NoAttempt
  /\ installLog = <<>>
  /\ running = 0
  /\ response = <<>>
  /\ extracted = NoExtract

SessionUnchanged ==
  UNCHANGED <<entry, max_retries, pc, code, deps, idx, child, files, result,
              retry_count, returned, genCalls, lastGen, lastAttempt,
              installLog, running, response, extracted>>

\* code, deps = generateCode(prompt); executeCode(code, deps) begins
SessionGenerate(s) ==
  /\ sessions[s].pc = "idle"
  /\ \E d \in DepLists :
       sessions' = [sessions EXCEPT ![s] =
                      [pc |-> IF d = <<>> THEN "run" ELSE "install",
                       deps |-> d, idx |-> 1]]
  /\ UNCHANGED env
  /\ SessionUnchanged

\* one install of the loop ends: a success adds the package to the shared
\* environment; a failure ends the loop, and the attempt too in ntest.py
SessionInstall(s) ==
  LET me == sessions[s]
  IN /\ me.pc = "install"
     /\ \E ok \in BOOLEAN :
          IF ok
          THEN /\ env' = env \cup {me.deps[me.idx]}
               /\ sessions' = [sessions EXCEPT ![s] =
                    [me EXCEPT !.idx = me.idx + 1,
                               !.pc = IF me.idx = Len(me.deps)
                                      THEN "run" ELSE "install"]]
          ELSE /\ UNCHANGED env
               /\ sessions' = [sessions EXCEPT ![s] =
                    [me EXCEPT !.pc = IF entry = "main" THEN "run" ELSE "done"]]
     /\ SessionUnchanged

\* the child of the call runs against the shared environment and ends
SessionRun(s) ==
  /\ sessions[s].pc = "run"
  /\ sessions' = [sessions EXCEPT ![s] = [sessions[s] EXCEPT !.pc = "done"]]
  /\ UNCHANGED env
  /\ SessionUnchanged

ConcNext ==
  \E s \in Sessions : SessionGenerate(s) \/ SessionInstall(s) \/ SessionRun(s)

ConcSpec == ConcInit /\ [][ConcNext]_vars

TypeOK ==
  /\ entry \in {"main", "solve"}
  /\ max_retries \in 0..MaxRetries
  /\ retry_count \in 0..MaxGen
  /\ genCalls \in 0..MaxGen
  /\ code \in {"", "p1", "p2"}
  /\ child \in Children \cup ParseChildren \cup {NoChild}

\* ------------------------------------------------------- properties
Terminal == pc \in {"Returned", "Raised"}

\* the code's own reading of an attempt as a success: ntest.py tests
\* result.get("error"), main tests "output" in result
ClassifiedSuccess ==
  IF entry = "solve" THEN result.error = NoneVal ELSE result.output # AbsentSeq

\* C1 (as stated): solve_with_retry never performs more than max_retries
\* generation calls (generateCode plus regenerateCode).
C1_AtMostMaxRetriesCalls == entry = "solve" => genCalls <= max_retries

\* C1 (amended): solve_with_retry never performs more than max_retries + 1
\* generation calls: one generateCode call and at most max_retries
\* regenerateCode calls.
C1_AtMostMaxRetriesPlusOneCalls == entry = "solve" => genCalls <= max_retries + 1

C1_Witness ==
  /\ entry = "solve"
  /\ pc = "Returned"
  /\ max_retries >= 1
  /\ genCalls = max_retries + 1

\* C2: in solve_with_retry the counter never decreases and grows by one on
\* every loop iteration, an attempt evaluated at the bound or as a success
\* ends the call at once, and every call eventually ends.
C2_CounterGrowsAndCallEnds ==
  /\ [][entry = "solve" =>
          /\ retry_count' >= retry_count
          /\ (pc = "evaluate" /\ pc' = "regenerateCode"
                => retry_count' = retry_count + 1 /\ retry_count' <= max_retries)
          /\ (pc = "evaluate" /\ (retry_count = max_retries \/ result.error = NoneVal)
                => pc' = "Returned")]_vars
  /\ (entry = "solve" ~> Terminal)

C2_Witness ==
  /\ entry = "solve"
  /\ pc = "Returned"
  /\ max_retries >= 1
  /\ retry_count = max_retries
  /\ returned.error = TimeoutResult.error

\* C3: once a generation call has yielded the empty program the call has
\* returned: nothing is installed, written or run for it and no further
\* generation call is made, in main and in solve_with_retry.
C3_EmptyProgramEndsTheCall ==
  (genCalls > 0 /\ code = "" /\ pc # "Raised") => pc = "Returned"

\* an attempt whose child overran the timeout, exited non-zero, or ran to
\* exit code 0 and was reported as an error
Recoverable ==
  /\ child # NoChild
  /\ \/ child.dur # "within"
     \/ child.returncode # 0
     \/ result.error # NoneVal

\* C4: in solve_with_retry an attempt that ends in a recoverable outcome
\* while retry_count is below the bound is followed by another generation
\* call, never by a return to the caller.
C4_RecoverableIsRetried ==
  [][(entry = "solve" /\ pc = "evaluate" /\ Recoverable
        /\ retry_count < max_retries) => pc' = "regenerateCode"]_vars

\* C5: every generation call after the first is a regenerateCode call that
\* is given the program and the diagnostic of the attempt made from the
\* generation call right before it.
C5_RetryCarriesLastFailure ==
  [][(genCalls >= 1 /\ genCalls' = genCalls + 1) =>
        /\ lastGen'.fn = "regenerateCode"
        /\ lastAttempt.n = genCalls
        /\ lastGen'.failed_code = lastAttempt.code
        /\ lastGen'.error = lastAttempt.error]_vars

C5_Witness ==
  /\ genCalls = 3
  /\ lastGen.fn = "regenerateCode"
  /\ lastGen.failed_code = "p2"
  /\ lastGen.error = "Failed to parse answer"

\* C6: an attempt the code reads as a success is followed at once by the
\* return of that attempt's value, with no generation call in between, and
\* nothing happens after the return.
C6_SuccessReturnsItsValue ==
  [][/\ (pc = "evaluate" /\ ClassifiedSuccess) =>
          /\ pc' = "Returned"
          /\ genCalls' = genCalls
          /\ lastAttempt.n = genCalls
          /\ IF entry = "solve"
             THEN returned'.error = NoneVal /\ returned'.answer = result.answer
             ELSE returned'.text = result.output
     /\ (pc = "Returned" => UNCHANGED vars)]_vars

C6_Witness ==
  /\ entry = "solve"
  /\ pc = "Returned"
  /\ max_retries = 2
  /\ genCalls = 2
  /\ retry_count = 1
  /\ returned.error = NoneVal
  /\ returned.answer = <<"int:4">>

\* C7: an execution whose child overran the timeout is reported as a
\* timeout, whatever the child wrote and whatever its exit code.
C7_OverrunIsTimeout ==
  (pc = "evaluate" /\ child # NoChild /\ child.dur # "within")
    => result.error = TimeoutResult.error

\* the payload of the first sentinel block of a stdout, AbsentSeq if none
BlockPayload(stdout) ==
  LET i == Find(stdout, START)
      j == FindAfter(stdout, END, i)
  IN IF i = 0 \/ j = 0 THEN AbsentSeq ELSE Strip(Between(stdout, i, j))

\* the answer a decoded payload stands for: ntest.py's wrapper prints the
\* answer as the "answer" member of an object
Carried(v) == IF entry = "solve" /\ IsDict(v) THEN GetAnswer(v) ELSE v

\* C8: an execution with exit code 0 whose stdout holds a sentinel block
\* wrapping valid JSON yields the decoded value of that payload.
C8_BlockYieldsDecodedValue ==
  (/\ pc = "evaluate"
   /\ child # NoChild
   /\ child.dur = "within"
   /\ child.returncode = 0
   /\ JsonValid(BlockPayload(child.stdout)))
    => /\ ClassifiedSuccess
       /\ (IF entry = "solve" THEN result.answer ELSE result.output)
            = <<Carried(JsonLoads(BlockPayload(child.stdout)))>>

\* C9: outside the part of executeCode that uses it, no temporary program
\* file exists: each one is gone when the step returns or raises.
C9_TempFileRemoved == pc \notin {"spawn", "wait"} => files = 0

\* C10: the value returned is either the answer of a successful attempt or
\* an error that carries the last diagnostic and the number of attempts.
C10_ReturnIsAnswerOrCountedError ==
  pc = "Returned" =>
    \/ /\ ClassifiedSuccess
       /\ lastAttempt.n = genCalls
       /\ IF entry = "solve"
          THEN returned.answer = result.answer
          ELSE returned.text = result.output
    \/ /\ "attempts" \in returned.keys
       /\ returned.error = lastAttempt.error

\* every install the current executeCode call has started, succeeded
AllInstalled ==
  /\ Len(installLog) = Len(deps)
  /\ \A i \in DOMAIN installLog : installLog[i].outcome = "ok"

\* C11: within one attempt the program file is written and run only when
\* every declared dependency has been installed successfully; after a
\* failed install the attempt never reaches the run.
C11_RunOnlyAfterAllInstalled == pc \in {"write", "spawn", "wait"} => AllInstalled

\* positions of the JSON objects in a response
ObjectsOf(r) == {i \in DOMAIN r : r[i] \in ObjTok}

\* an object with a string "program" and an array "dependencies"
WellFormed(o) == ObjTable[o].program \notin {Absent, NoneVal} /\ ObjTable[o].isList

\* C12: a response holding a single well-formed object gives the pair the
\* bare object gives, whatever prose or fences surround it (and so also
\* after being wrapped in fences once more).
C12_SameAsBareObject ==
  (/\ pc \in {"extracted", "Raised"}
   /\ Cardinality(ObjectsOf(response)) = 1
   /\ \A i \in ObjectsOf(response) : WellFormed(response[i]))
    => \A i \in ObjectsOf(response) : extracted = extract_program(<<response[i]>>)

\* C20: extract_program never lets an exception escape, and gives the empty
\* program with no dependencies when the response holds no JSON object.
C20_ExtractNeverRaises ==
  pc \in {"extracted", "Raised"} =>
    /\ ~extracted.raised
    /\ (ObjectsOf(response) = {} => extracted = EmptyProgram)

\* an attempt whose child ended within the timeout has just been parsed
Parsed == pc = "evaluate" /\ child # NoChild /\ child.dur = "within"

HasBlock(stdout) == BlockPayload(stdout) # AbsentSeq

\* what executeCode of the running entry point makes of a completed child
ResultOf(c) == IF entry = "main" THEN MainResult(c) ELSE NtestResult(c)

\* the value an attempt read as a success hands on
AnswerOf(r) == IF entry = "main" THEN r.output ELSE r.answer

\* C13: exit code 0 and a sentinel block whose payload is not valid JSON is
\* never read as a success, and the raw payload is not the answer.
C13_MalformedPayloadIsNoSuccess ==
  (/\ Parsed
   /\ child.returncode = 0
   /\ HasBlock(child.stdout)
   /\ ~JsonValid(BlockPayload(child.stdout)))
    => /\ ~ClassifiedSuccess
       /\ AnswerOf(result) # BlockPayload(child.stdout)

\* C14: exit code 0 and no sentinel block in stdout is never read as a
\* success, and the raw stdout is not the answer.
C14_MissingBlockIsNoSuccess ==
  (Parsed /\ child.returncode = 0 /\ ~HasBlock(child.stdout))
    => /\ ~ClassifiedSuccess
       /\ AnswerOf(result) # Strip(child.stdout)

\* C15: a child that ended in time with a non-zero exit code gives an error
\* carrying the trimmed stderr and no answer, whatever its stdout holds.
C15_NonZeroExitIsFailure ==
  (Parsed /\ child.returncode # 0)
    => /\ ~ClassifiedSuccess
       /\ result.output = AbsentSeq
       /\ result.answer \in {NoneSeq, AbsentSeq}
       /\ IF entry = "solve"
          THEN result.error = StripErr(child.stderr)
          ELSE /\ result.error \in {"error: ", "error: trace"}
               /\ (result.error = "error: ") <=> (StripErr(child.stderr) = "")

C15_Witness ==
  /\ Parsed
  /\ entry = "solve"
  /\ child.returncode = 1
  /\ child.stdout = <<START, JsonObj, END>>
  /\ child.stderr = " trace "
  /\ result.error = "trace"
  /\ result.answer = NoneSeq

\* the first sentinel block of a stdout on its own
FirstBlock(stdout) == <<START>> \o BlockPayload(stdout) \o <<END>>

\* C16: with exit code 0 the outcome is the one the first block alone
\* gives (the text between the first start marker and the first end marker
\* after it): markers or text before or after that block change nothing.
C16_FirstBlockDecides ==
  (Parsed /\ child.returncode = 0 /\ HasBlock(child.stdout))
    => result = ResultOf([child EXCEPT !.stdout = FirstBlock(child.stdout)])

\* C17: the installs of a call are started one at a time in the order of
\* the declared list, none is started after one that failed, and an empty
\* list starts none and is not reported as a dependency failure.
C17_InstallsInOrderUntilFailure ==
  /\ Len(installLog) <= Len(deps)
  /\ \A i \in DOMAIN installLog :
       /\ installLog[i].pkg = deps[i]
       /\ (i < Len(installLog) => installLog[i].outcome = "ok")
  /\ (deps = <<>> => pc # "install")
  /\ (deps = <<>> /\ lastAttempt.n = genCalls
        => result.error # InstallFailedResult.error)

C17_Witness ==
  /\ deps = <<"d1", "d2">>
  /\ installLog = <<[pkg |-> "d1", outcome |-> "fail"]>>
  /\ pc \in {"write", "evaluate"}

\* the install loop of the current executeCode call is over: every package
\* was tried, or one failed and the rest was abandoned
InstallEnded ==
  \/ Len(installLog) = Len(deps)
  \/ installLog # <<>> /\ installLog[Len(installLog)].outcome # "ok"

\* the order in which one call moves through its steps
StepOrder ==
  { <<"promptGenerator", "generateCode">>,
    <<"generateCode", "install">>, <<"generateCode", "write">>,
    <<"generateCode", "Returned">>, <<"generateCode", "Raised">>,
    <<"regenerateCode", "install">>, <<"regenerateCode", "write">>,
    <<"regenerateCode", "Returned">>, <<"regenerateCode", "Raised">>,
    <<"install", "install">>, <<"install", "write">>, <<"install", "evaluate">>,
    <<"write", "spawn">>, <<"write", "Raised">>,
    <<"spawn", "wait">>, <<"spawn", "evaluate">>, <<"spawn", "Raised">>,
    <<"wait", "evaluate">>,
    <<"evaluate", "regenerateCode">>, <<"evaluate", "Returned">> }

\* C19: one call moves through generate, install, run and evaluate in that
\* order: the program is written and run only after the install loop of
\* the same attempt is over, an outcome is read from a child only by the
\* wait on that live child, at most one child is alive, and attempts
\* return one after the other in the order they were generated.
C19_StepsInOrder ==
  /\ [](/\ running \in {0, 1}
        /\ (running = 1 <=> pc = "wait")
        /\ (pc \in {"write", "spawn", "wait"} => InstallEnded))
  /\ [][/\ <<pc, pc'>> \in StepOrder
        /\ genCalls' >= genCalls
        /\ (lastAttempt' # lastAttempt =>
              /\ pc \in {"install", "spawn", "wait"}
              /\ lastAttempt.n < genCalls
              /\ lastAttempt'.n = genCalls)
        /\ (result' # result /\ result'.error \notin
              {InstallFailedResult.error, SpawnErrorResult.error}
              => pc = "wait" /\ running = 1)]_vars

C19_Witness ==
  /\ entry = "solve"
  /\ genCalls = 2
  /\ pc = "wait"
  /\ running = 1
  /\ deps = <<"d1", "d2">>
  /\ AllInstalled
  /\ lastAttempt.n = 1

\* C18: the install steps of two calls on one host are serialized or
\* isolated: never are both calls inside their install loops, and never
\* does one run its program while the other is installing.
C18_InstallsSerialized ==
  \A s, t \in Sessions :
    (s # t /\ sessions[s].pc = "install")
      => sessions[t].pc \notin {"install", "run"}

====
